---- MODULE Spec2Model ----
(***************************************************************************)
(* Model of sensors/sensors_v1/camera_final.py: the ZedCameraSensor class. *)
(*                                                                         *)
(* Threads: one controller (the caller of start()/exit(), calls issued one *)
(* after another), the acquisition workers spawned by start() (_update),   *)
(* and the consumers calling get_image_frame()/get_depth_map().            *)
(*                                                                         *)
(* Python values: None is the empty tuple <<>>, any other value v of an    *)
(* attribute that may be None is <<v>>.  A str on which the code computes  *)
(* (camera_view.lower()) is a tuple of one-character strings; a member of  *)
(* the sl.VIEW enum is a one-element tuple, so that `view == 'left'` is    *)
(* an ordinary (false) comparison as it is in Python.                      *)
(*                                                                         *)
(* An sl.Mat is a buffer of FrameCells cells; retrieve_image fills it cell *)
(* by cell and numpy's copy() reads it cell by cell, get_data() returns a  *)
(* view of the buffer (pyzed's default deep_copy=False), not a copy.       *)
(***************************************************************************)
EXTENDS Integers, Sequences, FiniteSets, TLC

VARIABLES
    args,               \* arguments handed to __init__
    obj,                \* "pending" | "sensor" | "AssertionError": outcome of __init__
    camera_resolution, fps, camera_view, include_depth,
    zed,                \* "None" | "unopened" | "open" | "closed"
    raw_zed_data,       \* None or <<s>>: the image sl.Mat created by the s-th start
    raw_depth_data,     \* None or <<s>>: the depth sl.Mat
    image_frame,        \* None or <<view of a Mat>>
    depth_map,          \* None or <<view of a Mat>>
    started,            \* "None" | "True" | "False"
    read_lock,          \* "free", or who acquired it: "worker" or a consumer
    thread,             \* None (attribute not set) or <<s>>: the Thread of the s-th start
    mats,               \* contents of the sl.Mat buffers, per start and kind
    files,              \* the named memory-mapped files: None or <<frame>>
    wpc,                \* per worker: position in _update
    wloc,               \* per worker: locals of _update
    npulls,             \* per Thread object: number of zed.grab() calls it made
    nupdates,           \* per Thread object: number of updates of the cell it completed
    nwrites,            \* per Thread object: number of mmap writes it made
    sessions,           \* number of start() calls that opened the device
    ctl,                \* the controller: position and outcome of its last call
    cons,               \* the consumers: position, locals and outcome of the last call
    ext                 \* a process using the named files through the static methods

vars == <<args, obj, camera_resolution, fps, camera_view, include_depth, zed,
          raw_zed_data, raw_depth_data, image_frame, depth_map, started,
          read_lock, thread, mats, files, wpc, wloc, npulls, nupdates, nwrites,
          sessions, ctl, cons, ext>>

config == <<camera_resolution, fps, camera_view, include_depth>>
sensor == <<zed, raw_zed_data, raw_depth_data, image_frame, depth_map, started, thread>>
workers == <<wpc, wloc, npulls, nupdates, nwrites>>

-----------------------------------------------------------------------------
\* Bounds of the model.
MaxStarts == 2          \* start() calls that open the device
MaxPulls == 2           \* zed.grab() calls of one worker
FrameCells == 2         \* cells of one frame buffer

Consumers == {"c1", "c2"}
Sessions == 1..MaxStarts

None == <<>>
Some(v) == <<v>>

-----------------------------------------------------------------------------
\* Strings the code computes on.
s_left == <<"l", "e", "f", "t">>
s_right == <<"r", "i", "g", "h", "t">>
s_LEFT == <<"L", "E", "F", "T">>
s_Right == <<"R", "i", "g", "h", "t">>
s_center == <<"c", "e", "n", "t", "e", "r">>

UpperCase == <<"A", "B", "C", "D", "E", "F", "G", "H", "I", "J", "K", "L", "M",
               "N", "O", "P", "Q", "R", "S", "T", "U", "V", "W", "X", "Y", "Z">>
LowerCase == <<"a", "b", "c", "d", "e", "f", "g", "h", "i", "j", "k", "l", "m",
               "n", "o", "p", "q", "r", "s", "t", "u", "v", "w", "x", "y", "z">>

\* str.lower() on one character
lower_char(c) ==
    IF \E i \in DOMAIN UpperCase : UpperCase[i] = c
    THEN LowerCase[CHOOSE i \in DOMAIN UpperCase : UpperCase[i] = c]
    ELSE c

\* str.lower()
lower(s) == [i \in DOMAIN s |-> lower_char(s[i])]

\* members of sl.VIEW
VIEW_LEFT == <<"sl.VIEW.LEFT">>
VIEW_RIGHT == <<"sl.VIEW.RIGHT">>
VIEW_DEPTH == <<"sl.VIEW.DEPTH">>

-----------------------------------------------------------------------------
\* __init__

\* The table with 60 fps also allowed at 1080.
camera_info_1080_60 ==
    [r \in {"720", "1080", "2K"} |->
        CASE r = "720" -> [fps |-> {15, 30, 60}]
          [] r = "1080" -> [fps |-> {15, 30, 60}]
          [] r = "2K" -> [fps |-> {15}]]

\* self.camera_info
camera_info ==
    [r \in {"720", "1080", "2K"} |->
        CASE r = "720" -> [fps |-> {15, 30, 60}]
          [] r = "1080" -> [fps |-> {15, 30}]
          [] r = "2K" -> [fps |-> {15}]]

\* self.num_channels
num_channels == 4

\* the three asserts of __init__, in their order
init_asserts(a) ==
    IF lower(a.camera_view) \notin {s_left, s_right} THEN "Incorrect Camera View"
    ELSE IF a.camera_resolution \notin DOMAIN camera_info THEN "Incorrect Resolution"
    ELSE IF a.fps \notin camera_info[a.camera_resolution].fps
         THEN "Invalid FPS for given resolution"
    ELSE "ok"

\* The arguments tried on the constructor.
ArgViews == {s_left, s_right, s_LEFT, s_Right, s_center, <<>>}
ArgResolutions == {"720", "1080", "2K", "4K", "1080p"}
ArgFps == {0, 15, 30, 60, 120}
CtorArgs ==
    [camera_view : ArgViews, camera_resolution : ArgResolutions,
     fps : ArgFps, include_depth : BOOLEAN]
\* The arguments of the sensors whose runs are explored: the default resolution
\* and fps, either view, with and without depth.
RunArgs ==
    [camera_view : {s_left, s_right}, camera_resolution : {"1080"},
     fps : {30}, include_depth : BOOLEAN]

\* The attributes as __init__ leaves them, given the arguments.
Constructed(a) ==
    /\ camera_resolution = a.camera_resolution
    /\ fps = a.fps
    /\ camera_view = lower(a.camera_view)
    /\ include_depth = a.include_depth
    /\ zed = "None"
    /\ raw_zed_data = None
    /\ raw_depth_data = None
    /\ image_frame = None
    /\ depth_map = None
    /\ started = "None"
    /\ read_lock = "free"
    /\ thread = None

\* The locals of _update before it runs and after it ended.
NoLocals == [i |-> 0, image_ocv |-> None, depth_ocv |-> None]

\* A process that has not used the named files: `out` is the array its last
\* get_from_buffer returned, `err` the exception of its last call, `sent` the
\* array its last send_to_buffer wrote per name and `over` whether that write
\* found the file existing.
NoExt ==
    [out |-> None, err |-> "none",
     sent |-> [n \in {"zed_image", "zed_depth_map"} |-> None],
     over |-> [n \in {"zed_image", "zed_depth_map"} |-> FALSE]]

\* What is not the sensor's own: buffers, files and threads.
Surroundings ==
    /\ mats = [s \in Sessions |-> [k \in {"img", "depth"} |-> <<>>]]
    /\ files = [n \in {"zed_image", "zed_depth_map"} |-> None]
    /\ wpc = [s \in Sessions |-> "none"]
    /\ wloc = [s \in Sessions |-> NoLocals]
    /\ npulls = [s \in Sessions |-> 0]
    /\ nupdates = [s \in Sessions |-> 0]
    /\ nwrites = [s \in Sessions |-> 0]
    /\ sessions = 0
    /\ ctl = [pc |-> "idle", ret |-> "none"]
    /\ cons = [c \in Consumers |->
                 [pc |-> "idle", call |-> "none", src |-> None, i |-> 0,
                  buf |-> <<>>, ret |-> "none", out |-> None]]
    /\ ext = NoExt

\* A sensor right after a successful construction.
Init ==
    /\ \E a \in RunArgs :
         /\ init_asserts(a) = "ok"
         /\ args = a
         /\ Constructed(a)
    /\ obj = "sensor"
    /\ Surroundings

-----------------------------------------------------------------------------
\* The constructor as an operation: __init__ applied to arbitrary arguments.

\* No object exists: the attributes hold nothing.
NoObject ==
    /\ camera_resolution = ""
    /\ fps = 0
    /\ camera_view = <<>>
    /\ include_depth = FALSE
    /\ zed = "None"
    /\ raw_zed_data = None
    /\ raw_depth_data = None
    /\ image_frame = None
    /\ depth_map = None
    /\ started = "None"
    /\ read_lock = "free"
    /\ thread = None

CtorInit ==
    /\ args \in CtorArgs
    /\ obj = "pending"
    /\ NoObject
    /\ Surroundings

\* ZedCameraSensor(camera_resolution, fps, camera_view, include_depth)
Construct ==
    /\ obj = "pending"
    /\ IF init_asserts(args) = "ok"
       THEN /\ obj' = "sensor"
            /\ camera_resolution' = args.camera_resolution
            /\ fps' = args.fps
            /\ camera_view' = lower(args.camera_view)
            /\ include_depth' = args.include_depth
       ELSE /\ obj' = "AssertionError"
            /\ UNCHANGED config
    /\ zed' = "None"
    /\ raw_zed_data' = None
    /\ raw_depth_data' = None
    /\ image_frame' = None
    /\ depth_map' = None
    /\ started' = "None"
    /\ read_lock' = "free"
    /\ thread' = None
    /\ UNCHANGED <<ext, args, mats, files, workers, sessions, ctl, cons>>

-----------------------------------------------------------------------------
\* Frames.

\* What one retrieve_image of pull number n of worker s puts in a cell.
cell(s, n, view) == [sess |-> s, id |-> n, view |-> view]

\* A Mat filled completely by one retrieve_image.
filled(c) == [i \in 1..FrameCells |-> c]

\* sl.Mat.get_data(): a numpy view of the Mat's memory with all its channels.
get_data(mat) == [mat |-> mat, ch |-> num_channels]

\* view[:, :, 0:3]: the same memory, the first three channels.
first3(view) == [mat |-> view.mat, ch |-> 3]

\* The bytes a view shows now.
bytes_of(view) == [cells |-> mats[view.mat[1]][view.mat[2]], ch |-> view.ch]

\* A new sl.Mat of the s-th start: its memory is allocated, nothing retrieved yet.
blank(s) == [sess |-> s, id |-> 0, view |-> <<>>]

\* The numpy views that exist: the two attributes, the view a consumer's copy()
\* is reading, the array a consumer was returned, the locals of the workers.
held_views ==
    {image_frame, depth_map}
      \cup {cons[c].src : c \in Consumers} \cup {cons[c].out : c \in Consumers}
      \cup {wloc[s].image_ocv : s \in Sessions} \cup {wloc[s].depth_ocv : s \in Sessions}

\* The Mats something refers to: self.raw_zed_data, self.raw_depth_data, and
\* the Mat whose memory a view shows.  Each Mat lives by its own references.
referenced ==
    {<<raw_zed_data[x], "img">> : x \in DOMAIN raw_zed_data}
      \cup {<<raw_depth_data[x], "depth">> : x \in DOMAIN raw_depth_data}
      \cup {v[1].mat : v \in {w \in held_views : w # None /\ w[1].mat # <<>>}}

\* The Mats m after a step: a Mat nothing refers to any more is freed.
collected(m) ==
    [t \in Sessions |->
        [k \in {"img", "depth"} |-> IF <<t, k>> \in referenced' THEN m[t][k] ELSE <<>>]]

\* A Thread is alive between its start() and the end of its target.
is_alive(s) == wpc[s] \notin {"none", "done", "failed", "crashed"}

-----------------------------------------------------------------------------
\* start()

\* start() without its test of self.started.
already_started_untested == FALSE

\* `if self.started:`
already_started == started = "True"

\* `if self.camera_view == 'left': sl.VIEW.LEFT else: sl.VIEW.RIGHT`
select_view(v) == IF v = s_left THEN VIEW_LEFT ELSE VIEW_RIGHT

\* start() without its initial pull: image_frame is left as it was constructed.
initial_image_frame_unset(s) == None

\* retrieve_image(self.raw_zed_data, sl.VIEW.LEFT); self.image_frame = get_data()
initial_image_frame(s) == Some(get_data(<<s, "img">>))

\* retrieve_image(self.raw_depth_data, sl.VIEW.DEPTH); self.depth_map = get_data()
initial_depth_map(s) == Some(get_data(<<s, "depth">>))

\* start() on a started sensor: prints a notice and returns.
StartAlready ==
    /\ obj = "sensor"
    /\ ctl.pc = "idle"
    /\ already_started
    /\ ctl' = [pc |-> "idle", ret |-> "start: already started"]
    /\ UNCHANGED <<ext, args, obj, config, sensor, read_lock, mats, files, workers,
                   sessions, cons>>

\* start() when zed.open() fails: CameraActivationError.
StartActivationError ==
    /\ obj = "sensor"
    /\ ctl.pc = "idle"
    /\ ~already_started
    /\ zed' = "unopened"
    /\ camera_view' = select_view(camera_view)
    /\ ctl' = [pc |-> "idle", ret |-> "CameraActivationError"]
    /\ UNCHANGED <<ext, args, obj, camera_resolution, fps, include_depth, raw_zed_data,
                   raw_depth_data, image_frame, depth_map, started, thread,
                   read_lock, mats, files, workers, sessions, cons>>

\* start() up to `self.zed.open(init_params)` when it succeeds (lines 116-150).
\* From here to its return start() is a sequence of assignments to self with
\* calls into the SDK between them; it takes no lock, the consumers run in
\* between.
StartOpen ==
    /\ obj = "sensor"
    /\ ctl.pc = "idle"
    /\ ~already_started
    /\ sessions < MaxStarts
    /\ sessions' = sessions + 1
    /\ zed' = "open"
    /\ camera_view' = select_view(camera_view)
    /\ ctl' = [pc |-> "mat_image", ret |-> "none"]
    /\ UNCHANGED <<ext, args, obj, camera_resolution, fps, include_depth, raw_zed_data,
                   raw_depth_data, image_frame, depth_map, started, thread,
                   read_lock, mats, files, workers, cons>>

\* `self.raw_zed_data = sl.Mat(...)`: the Mat of the start before loses this
\* reference.
StartMatImage ==
    /\ ctl.pc = "mat_image"
    /\ raw_zed_data' = Some(sessions)
    /\ ctl' = [ctl EXCEPT !.pc = IF include_depth THEN "mat_depth" ELSE "started"]
    /\ UNCHANGED <<ext, args, obj, config, zed, raw_depth_data, image_frame, depth_map,
                   started, thread, read_lock, files, workers, sessions, cons>>
    /\ mats' = collected([mats EXCEPT ![sessions]["img"] = filled(blank(sessions))])

\* `if self.include_depth: self.raw_depth_data = sl.Mat(...)`
StartMatDepth ==
    /\ ctl.pc = "mat_depth"
    /\ raw_depth_data' = Some(sessions)
    /\ ctl' = [ctl EXCEPT !.pc = "started"]
    /\ UNCHANGED <<ext, args, obj, config, zed, raw_zed_data, image_frame, depth_map,
                   started, thread, read_lock, files, workers, sessions, cons>>
    /\ mats' = collected([mats EXCEPT ![sessions]["depth"] = filled(blank(sessions))])

\* `self.started = True`
StartStarted ==
    /\ ctl.pc = "started"
    /\ started' = "True"
    /\ ctl' = [ctl EXCEPT !.pc = "image"]
    /\ UNCHANGED <<ext, args, obj, config, zed, raw_zed_data, raw_depth_data, image_frame,
                   depth_map, thread, read_lock, mats, files, workers, sessions, cons>>

\* `retrieve_image(self.raw_zed_data, sl.VIEW.LEFT)` and `self.image_frame =
\* self.raw_zed_data.get_data()`: no view of the new Mat exists while it is
\* filled, the view of the Mat before is dropped by the assignment.
StartImage ==
    /\ ctl.pc = "image"
    /\ image_frame' = initial_image_frame(sessions)
    /\ ctl' = [ctl EXCEPT !.pc = IF include_depth THEN "depth" ELSE "thread"]
    /\ UNCHANGED <<ext, args, obj, config, zed, raw_zed_data, raw_depth_data, depth_map,
                   started, thread, read_lock, files, workers, sessions, cons>>
    /\ mats' = collected([mats EXCEPT ![sessions]["img"] =
                                         filled(cell(sessions, 0, VIEW_LEFT))])

\* `if self.include_depth:` `retrieve_image(self.raw_depth_data, sl.VIEW.DEPTH)`
\* and `self.depth_map = self.raw_depth_data.get_data()`
StartDepth ==
    /\ ctl.pc = "depth"
    /\ depth_map' = initial_depth_map(sessions)
    /\ ctl' = [ctl EXCEPT !.pc = "thread"]
    /\ UNCHANGED <<ext, args, obj, config, zed, raw_zed_data, raw_depth_data, image_frame,
                   started, thread, read_lock, files, workers, sessions, cons>>
    /\ mats' = collected([mats EXCEPT ![sessions]["depth"] =
                                         filled(cell(sessions, 0, VIEW_DEPTH))])

\* `self.thread = Thread(target=self._update)`, `self.thread.start()`, return.
\* The Thread of the start before loses its reference: it goes unless it is
\* alive, and its counters with it.
StartThread ==
    /\ ctl.pc = "thread"
    /\ thread' = Some(sessions)
    /\ wpc' = [t \in Sessions |->
                 IF t = sessions THEN "check" ELSE IF is_alive(t) THEN wpc[t] ELSE "none"]
    /\ npulls' = [t \in Sessions |-> IF is_alive(t) THEN npulls[t] ELSE 0]
    /\ nupdates' = [t \in Sessions |-> IF is_alive(t) THEN nupdates[t] ELSE 0]
    /\ nwrites' = [t \in Sessions |-> IF is_alive(t) THEN nwrites[t] ELSE 0]
    /\ ctl' = [pc |-> "idle", ret |-> "start: ok"]
    /\ UNCHANGED <<ext, args, obj, config, zed, raw_zed_data, raw_depth_data, image_frame,
                   depth_map, started, read_lock, mats, files, wloc, sessions, cons>>

-----------------------------------------------------------------------------
\* exit()

\* sl.Camera.close(): closes an open camera, has no effect otherwise.
zed_close(z) == IF z = "open" THEN "closed" ELSE z

\* `self.started = False`
ExitClear ==
    /\ obj = "sensor"
    /\ ctl.pc = "idle"
    /\ started' = "False"
    /\ ctl' = [pc |-> "join", ret |-> "none"]
    /\ UNCHANGED <<ext, args, obj, config, zed, raw_zed_data, raw_depth_data,
                   image_frame, depth_map, thread, read_lock, mats, files,
                   workers, sessions, cons>>

\* `self.thread.join()` when start() never set self.thread: AttributeError.
ExitNoThread ==
    /\ ctl.pc = "join"
    /\ thread = None
    /\ ctl' = [pc |-> "idle", ret |-> "AttributeError"]
    /\ UNCHANGED <<ext, args, obj, config, sensor, read_lock, mats, files, workers,
                   sessions, cons>>

\* join() followed by `self.thread = None`.
ExitJoin_forget ==
    /\ ctl.pc = "join"
    /\ thread # None
    /\ ~is_alive(thread[1])
    /\ thread' = None
    /\ ctl' = [pc |-> "close", ret |-> "none"]
    /\ UNCHANGED <<ext, args, obj, config, zed, raw_zed_data, raw_depth_data, image_frame,
                   depth_map, started, read_lock, mats, files, workers, sessions, cons>>

\* `self.thread.join()`: returns once the thread is no longer alive.
ExitJoin ==
    /\ ctl.pc = "join"
    /\ thread # None
    /\ ~is_alive(thread[1])
    /\ ctl' = [pc |-> "close", ret |-> "none"]
    /\ UNCHANGED <<ext, args, obj, config, sensor, read_lock, mats, files, workers,
                   sessions, cons>>

\* `self.zed.close()` and return.
ExitClose ==
    /\ ctl.pc = "close"
    /\ IF zed = "None"
       THEN /\ ctl' = [pc |-> "idle", ret |-> "AttributeError"]
            /\ zed' = zed
       ELSE /\ ctl' = [pc |-> "idle", ret |-> "exit: ok"]
            /\ zed' = zed_close(zed)
    /\ UNCHANGED <<ext, args, obj, config, raw_zed_data, raw_depth_data, image_frame,
                   depth_map, started, thread, read_lock, mats, files, workers,
                   sessions, cons>>

-----------------------------------------------------------------------------
\* The memory-mapped files.

\* A file is None (it does not exist) or <<bytes>>, its bytes in order.  An
\* array is its shape (height, width, channels) and its elements by index.

\* The indices of an array of a shape.
indices(shape) == (1..shape[1]) \X (1..shape[2]) \X (1..shape[3])

\* The number of elements (of one byte, dtype uint8) of a shape.
nbytes(shape) == shape[1] * shape[2] * shape[3]

\* The place in the file of element idx of an array of a shape: C order.
offset(shape, idx) == ((idx[1] - 1) * shape[2] + (idx[2] - 1)) * shape[3] + idx[3]

\* The index whose place in the file is p.
index_at(shape, p) == CHOOSE idx \in indices(shape) : offset(shape, idx) = p

\* n zero bytes: what a file is created with or extended by.
zeros(n) == [p \in 1..n |-> 0]

\* np.memmap(filename, mode='w+' / 'r+', shape=data.shape): the bytes of the file
\* once mapped.  'w+' creates it with the size of the shape; 'r+' opens the
\* existing file and extends it if it is smaller than the shape.
mapped_for_write(old, shape) ==
    IF old = None THEN zeros(nbytes(shape))
    ELSE IF Len(old[1]) < nbytes(shape)
         THEN old[1] \o zeros(nbytes(shape) - Len(old[1]))
         ELSE old[1]

\* mmap_write with the existing file mapped copy-on-write (mode='c'): the
\* assignment stays in the process, an existing file keeps its bytes.
mmap_write_private(old, data) ==
    IF old = None
    THEN Some([p \in 1..nbytes(data.shape) |-> data.el[index_at(data.shape, p)]])
    ELSE old

\* mmap_write(filename, data): creates the file or opens the existing one, and
\* `zed_img_path[:] = data[:]` copies the data in, element by element.
mmap_write(old, data) ==
    LET m == mapped_for_write(old, data.shape) IN
        Some([p \in 1..Len(m) |->
                IF p <= nbytes(data.shape) THEN data.el[index_at(data.shape, p)]
                ELSE m[p]])

\* The array mmap_read returns is a memmap of the file, mapped from its first
\* byte.  With mode 'c' (a private mapping) the first assignment to a page
\* gives the process a copy of that whole page: from then on the places of the
\* page show the copy (`priv`, by place in the file) and no longer follow the
\* file; the pages not assigned to show the file as it is now (the page cache
\* of Linux).
PageSize == 4096

\* The page of place p of a file.
page_of(p) == (p - 1) \div PageSize

NoPages == [p \in {} |-> 0]

\* `image[idx] = v` on a private mapping m of file bytes f: the page of the
\* element is copied unless it is private already, then the element is set.
assigned_private(m, f, idx, v) ==
    LET p == offset(m.shape, idx)
        pg == {q \in 1..nbytes(m.shape) : page_of(q) = page_of(p)}
    IN [q \in DOMAIN m.priv \cup pg |->
          IF q = p THEN v
          ELSE IF q \in DOMAIN m.priv THEN m.priv[q]
          ELSE f[q]]

\* mmap_read with the file mapped for shared writing (mode='r+').
mmap_read_shared(fs, filename, image_shape) ==
    IF fs[filename] = None THEN [err |-> "FileNotFoundError", out |-> None]
    ELSE IF Len(fs[filename][1]) < nbytes(image_shape)
         THEN [err |-> "ValueError", out |-> None]
    ELSE [err |-> "none",
          out |-> Some([file |-> filename, mode |-> "r+", shape |-> image_shape,
                        priv |-> NoPages])]

\* mmap_read(filename, image_shape): FileNotFoundError if the file does not
\* exist; np.memmap(mode='c') raises ValueError if the file is smaller than
\* the shape; else the memmap.
mmap_read(fs, filename, image_shape) ==
    IF fs[filename] = None THEN [err |-> "FileNotFoundError", out |-> None]
    ELSE IF Len(fs[filename][1]) < nbytes(image_shape)
         THEN [err |-> "ValueError", out |-> None]
    ELSE [err |-> "none",
          out |-> Some([file |-> filename, mode |-> "c", shape |-> image_shape,
                        priv |-> NoPages])]

\* The elements a memmap shows, given the files.
content(fs, m) ==
    [shape |-> m.shape,
     el |-> [idx \in indices(m.shape) |->
               IF offset(m.shape, idx) \in DOMAIN m.priv
               THEN m.priv[offset(m.shape, idx)]
               ELSE fs[m.file][1][offset(m.shape, idx)]]]

\* The arrays and shapes tried on the files.
BufNames == {"zed_image", "zed_depth_map"}
BufShapes == {<<1, 2, 1>>, <<2, 1, 2>>}
BufBytes == {0, 1}
\* Every array of the small shapes, and of the largest the two arrays whose
\* elements tell their index: 1 at the first column and channel only, and 1
\* in the second row only.
BufArrays ==
    UNION {[shape : {sh}, el : [indices(sh) -> BufBytes]] :
             sh \in {<<1, 2, 1>>}}
      \cup {[shape |-> <<2, 1, 2>>,
             el |-> [idx \in indices(<<2, 1, 2>>) |-> IF idx[3] = 1 THEN 1 ELSE 0]],
            [shape |-> <<2, 1, 2>>,
             el |-> [idx \in indices(<<2, 1, 2>>) |-> IF idx[1] = 2 THEN 1 ELSE 0]]}

\* A process with no sensor: the static methods need none.
BufInit ==
    /\ args = [camera_view |-> <<>>, camera_resolution |-> "", fps |-> 0,
               include_depth |-> FALSE]
    /\ obj = "none"
    /\ NoObject
    /\ Surroundings

\* send_to_buffer(filename, image_arr)
BufWrite(filename, data) ==
    /\ obj = "none"
    /\ files' = [files EXCEPT ![filename] = mmap_write(@, data)]
    /\ ext' = [ext EXCEPT !.err = "none",
                          !.sent[filename] = Some(data),
                          !.over[filename] = (files[filename] # None)]
    /\ UNCHANGED <<args, obj, config, sensor, read_lock, mats, workers, sessions,
                   ctl, cons>>

\* get_from_buffer(filename, image_shape)
BufRead(filename, image_shape) ==
    /\ obj = "none"
    /\ LET r == mmap_read(files, filename, image_shape) IN
         ext' = [ext EXCEPT !.err = r.err, !.out = r.out]
    /\ UNCHANGED <<args, obj, config, sensor, read_lock, mats, files, workers,
                   sessions, ctl, cons>>

\* The caller assigns element idx of the array it got: `image[idx] = v`.
BufMutate(idx, v) ==
    /\ obj = "none"
    /\ ext.out # None
    /\ LET m == ext.out[1] IN
         /\ idx \in indices(m.shape)
         /\ IF m.mode = "c"
            THEN /\ ext' = [ext EXCEPT !.out =
                             Some([m EXCEPT !.priv =
                                     assigned_private(m, files[m.file][1], idx, v)])]
                 /\ files' = files
            ELSE /\ files' = [files EXCEPT ![m.file][1][offset(m.shape, idx)] = v]
                 /\ ext' = ext
    /\ UNCHANGED <<args, obj, config, sensor, read_lock, mats, workers, sessions,
                   ctl, cons>>

BufNext ==
    \/ \E n \in BufNames, d \in BufArrays : BufWrite(n, d)
    \/ \E n \in BufNames, sh \in BufShapes : BufRead(n, sh)
    \/ \E idx \in indices(<<2, 2, 2>>), v \in BufBytes : BufMutate(idx, v)

\* The array a view shows, as numpy sees it: the rows are the cells, the
\* element of row i and channel k is channel k of cell i.
ndarray(view) ==
    [shape |-> <<FrameCells, 1, view.ch>>,
     el |-> [idx \in indices(<<FrameCells, 1, view.ch>>) |->
               [cell |-> mats[view.mat[1]][view.mat[2]][idx[1]], k |-> idx[3]]]]

-----------------------------------------------------------------------------
\* _update(), run by the thread of the s-th start.

\* `while self.started:`
W_check(s) ==
    /\ wpc[s] = "check"
    /\ wpc' = [wpc EXCEPT ![s] = IF started = "True" THEN "grab" ELSE "done"]
    /\ wloc' = [wloc EXCEPT ![s] = IF started = "True" THEN @ ELSE NoLocals]
    /\ UNCHANGED <<ext, args, obj, config, sensor, read_lock, mats, files,
                   npulls, nupdates, nwrites, sessions, ctl, cons>>

\* `self.zed.grab(...) == SUCCESS`
W_grab_ok(s) ==
    /\ wpc[s] = "grab"
    /\ npulls[s] < MaxPulls
    /\ npulls' = [npulls EXCEPT ![s] = @ + 1]
    /\ wloc' = [wloc EXCEPT ![s].i = 1]
    /\ wpc' = [wpc EXCEPT ![s] = "retrieve_image"]
    /\ UNCHANGED <<ext, args, obj, config, sensor, read_lock, mats, files, nupdates,
                   nwrites, sessions, ctl, cons>>

\* grab fails and the loop goes on to its next iteration.
W_grab_fail_retry(s) ==
    /\ wpc[s] = "grab"
    /\ npulls[s] <= MaxPulls
    /\ npulls' = [npulls EXCEPT ![s] = @ + 1]
    /\ wpc' = [wpc EXCEPT ![s] = "check"]
    /\ UNCHANGED <<ext, args, obj, config, sensor, read_lock, mats, files, wloc,
                   nupdates, nwrites, sessions, ctl, cons>>

\* grab fails: `raise ImageCaptureError`, which ends the thread.
W_grab_fail(s) ==
    /\ wpc[s] = "grab"
    /\ npulls' = [npulls EXCEPT ![s] = @ + 1]
    /\ wpc' = [wpc EXCEPT ![s] = "failed"]
    /\ wloc' = [wloc EXCEPT ![s] = NoLocals]
    /\ UNCHANGED <<ext, args, obj, config, sensor, read_lock, mats, files,
                   nupdates, nwrites, sessions, ctl, cons>>

\* `self.zed.retrieve_image(self.raw_zed_data, self.camera_view)`, one cell a
\* step, then `image_ocv = self.raw_zed_data.get_data()[:, :, 0:3]`.
W_retrieve_image(s) ==
    /\ wpc[s] = "retrieve_image"
    /\ LET m == raw_zed_data[1]
           i == wloc[s].i
       IN /\ mats' = [mats EXCEPT ![m]["img"][i] = cell(s, npulls[s], camera_view)]
          /\ IF i < FrameCells
             THEN /\ wloc' = [wloc EXCEPT ![s].i = i + 1]
                  /\ wpc' = wpc
             ELSE /\ wloc' = [wloc EXCEPT ![s].i = 1,
                                          ![s].image_ocv = Some(first3(get_data(<<m, "img">>)))]
                  /\ wpc' = [wpc EXCEPT ![s] =
                               IF include_depth THEN "retrieve_depth" ELSE "acquire"]
    /\ UNCHANGED <<ext, args, obj, config, sensor, read_lock, files, npulls, nupdates,
                   nwrites, sessions, ctl, cons>>

\* `self.zed.retrieve_image(self.raw_depth_data, sl.VIEW.DEPTH)`, one cell a
\* step, then `depth_ocv = self.raw_depth_data.get_data()[:, :, 0:3]`.
W_retrieve_depth(s) ==
    /\ wpc[s] = "retrieve_depth"
    /\ LET m == raw_depth_data[1]
           i == wloc[s].i
       IN /\ mats' = [mats EXCEPT ![m]["depth"][i] = cell(s, npulls[s], VIEW_DEPTH)]
          /\ IF i < FrameCells
             THEN /\ wloc' = [wloc EXCEPT ![s].i = i + 1]
                  /\ wpc' = wpc
             ELSE /\ wloc' = [wloc EXCEPT ![s].i = 1,
                                          ![s].depth_ocv = Some(first3(get_data(<<m, "depth">>)))]
                  /\ wpc' = [wpc EXCEPT ![s] = "acquire"]
    /\ UNCHANGED <<ext, args, obj, config, sensor, read_lock, files, npulls, nupdates,
                   nwrites, sessions, ctl, cons>>

\* `self.read_lock.acquire()`
W_acquire(s) ==
    /\ wpc[s] = "acquire"
    /\ read_lock = "free"
    /\ read_lock' = "worker"
    /\ wpc' = [wpc EXCEPT ![s] = "update"]
    /\ UNCHANGED <<ext, args, obj, config, sensor, mats, files, wloc, npulls, nupdates,
                   nwrites, sessions, ctl, cons>>

\* The update without its `self.read_lock.release()`.
W_update_keep_lock(s) ==
    /\ wpc[s] = "update"
    /\ image_frame' = wloc[s].image_ocv
    /\ depth_map' = IF include_depth THEN wloc[s].depth_ocv ELSE depth_map
    /\ read_lock' = "worker"
    /\ nupdates' = [nupdates EXCEPT ![s] = @ + 1]
    /\ wpc' = [wpc EXCEPT ![s] = "send_image"]
    /\ UNCHANGED <<ext, args, obj, config, zed, raw_zed_data, raw_depth_data, started,
                   thread, mats, files, wloc, npulls, nwrites, sessions, ctl, cons>>

\* `self.image_frame = image_ocv`, `if self.include_depth: self.depth_map =
\* depth_ocv`, `self.read_lock.release()`
W_update(s) ==
    /\ wpc[s] = "update"
    /\ image_frame' = wloc[s].image_ocv
    /\ depth_map' = IF include_depth THEN wloc[s].depth_ocv ELSE depth_map
    /\ read_lock' = "free"
    /\ nupdates' = [nupdates EXCEPT ![s] = @ + 1]
    /\ wpc' = [wpc EXCEPT ![s] = "send_image"]
    /\ UNCHANGED <<ext, args, obj, config, zed, raw_zed_data, raw_depth_data, started,
                   thread, mats, files, wloc, npulls, nwrites, sessions, ctl, cons>>

\* `ZedCameraSensor.send_to_buffer('zed_image', image_ocv)`
W_send_image(s) ==
    /\ wpc[s] = "send_image"
    /\ files' = [files EXCEPT !["zed_image"] =
                    mmap_write(@, ndarray(wloc[s].image_ocv[1]))]
    /\ nwrites' = [nwrites EXCEPT ![s] = @ + 1]
    /\ wpc' = [wpc EXCEPT ![s] = "send_depth"]
    /\ UNCHANGED <<ext, args, obj, config, sensor, read_lock, mats, wloc, npulls,
                   nupdates, sessions, ctl, cons>>

\* `ZedCameraSensor.send_to_buffer('zed_depth_map', depth_ocv)`: depth_ocv is
\* assigned only under `if self.include_depth:`, reading it unassigned raises
\* UnboundLocalError, which ends the thread.
W_send_depth(s) ==
    /\ wpc[s] = "send_depth"
    /\ IF wloc[s].depth_ocv = None
       THEN /\ wpc' = [wpc EXCEPT ![s] = "crashed"]
            /\ wloc' = [wloc EXCEPT ![s] = NoLocals]
            /\ UNCHANGED <<files, nwrites>>
       ELSE /\ files' = [files EXCEPT !["zed_depth_map"] =
                           mmap_write(@, ndarray(wloc[s].depth_ocv[1]))]
            /\ nwrites' = [nwrites EXCEPT ![s] = @ + 1]
            /\ wpc' = [wpc EXCEPT ![s] = "sleep"]
            /\ wloc' = wloc
    /\ UNCHANGED <<ext, args, obj, config, sensor, read_lock, mats, npulls,
                   nupdates, sessions, ctl, cons>>

\* get_timestamp, fromtimestamp, `time.sleep(0.06)`, back to the loop test.
W_sleep(s) ==
    /\ wpc[s] = "sleep"
    /\ wpc' = [wpc EXCEPT ![s] = "check"]
    /\ UNCHANGED <<ext, args, obj, config, sensor, read_lock, mats, files, wloc,
                   npulls, nupdates, nwrites, sessions, ctl, cons>>

-----------------------------------------------------------------------------
\* get_image_frame() and get_depth_map(), called by consumer c.

\* cons[c].ret is how the last call ended: "ok" (a frame was returned) or the
\* exception raised.  The frame a call returns is the finished copy: its cells
\* are cons[c].buf in the step that returns it, the array is cons[c].out.

\* The call begins; the array the call before returned is dropped.
G_call(c, kind) ==
    /\ obj = "sensor"
    /\ cons[c].pc = "idle"
    /\ cons' = [cons EXCEPT ![c] =
                  [pc |-> "acquire", call |-> kind, src |-> None, i |-> 0,
                   buf |-> <<>>, ret |-> "none", out |-> None]]
    /\ UNCHANGED <<ext, args, obj, config, sensor, read_lock, files, workers,
                   sessions, ctl>>
    /\ mats' = collected(mats)

\* `self.read_lock.acquire()`
G_acquire(c) ==
    /\ cons[c].pc = "acquire"
    /\ read_lock = "free"
    /\ read_lock' = c
    /\ cons' = [cons EXCEPT ![c].pc = "load"]
    /\ UNCHANGED <<ext, args, obj, config, sensor, mats, files, workers, sessions, ctl>>

\* `self.image_frame.copy` / `self.depth_map.copy`: the attribute is read; on
\* None the attribute lookup raises AttributeError and the call ends there,
\* the release() below it is not reached.
G_load(c) ==
    /\ cons[c].pc = "load"
    /\ LET a == IF cons[c].call = "image" THEN image_frame ELSE depth_map IN
         IF a = None
         THEN cons' = [cons EXCEPT ![c].pc = "idle",
                                   ![c].ret = "AttributeError"]
         ELSE cons' = [cons EXCEPT ![c].pc = "copy", ![c].src = a, ![c].i = 1]
    /\ UNCHANGED <<ext, args, obj, config, sensor, read_lock, mats, files, workers,
                   sessions, ctl>>

\* The array returned without a copy: the stored view itself.
np_copy_omitted(view) == view

\* ndarray.copy(): a new array with memory of its own (no Mat), of the same
\* channels.
np_copy(view) == [mat |-> <<>>, ch |-> view.ch]

\* `.copy()`: the cells of the viewed buffer are read one a step; when it
\* returns, the copy is in the local and the view that was read is dropped.
G_copy(c) ==
    /\ cons[c].pc = "copy"
    /\ LET v == cons[c].src[1]
           i == cons[c].i
       IN cons' = IF i < FrameCells
                  THEN [cons EXCEPT ![c].buf = Append(@, mats[v.mat[1]][v.mat[2]][i]),
                                    ![c].i = i + 1]
                  ELSE [cons EXCEPT ![c].buf = Append(@, mats[v.mat[1]][v.mat[2]][i]),
                                    ![c].i = i + 1,
                                    ![c].pc = "release",
                                    ![c].src = None,
                                    ![c].out = Some(np_copy(v))]
    /\ UNCHANGED <<ext, args, obj, config, sensor, read_lock, files, workers,
                   sessions, ctl>>
    /\ mats' = collected(mats)

\* What an assignment by a caller puts in a cell.
Scribble == [sess |-> 0, id |-> 0, view |-> <<>>]

\* `self.read_lock.release()` and `return`.
G_release(c) ==
    /\ cons[c].pc = "release"
    /\ read_lock' = "free"
    /\ cons' = [cons EXCEPT ![c].pc = "idle", ![c].i = 0, ![c].buf = <<>>,
                            ![c].ret = "ok"]
    /\ UNCHANGED <<ext, args, obj, config, sensor, mats, files, workers, sessions, ctl>>

\* The caller assigns to the frame its last call returned (`frame[0] = ...`):
\* the assignment goes to the memory of that array.
G_mutate(c) ==
    /\ cons[c].pc = "idle"
    /\ cons[c].ret \in {"ok", "assigned"}
    /\ cons' = [cons EXCEPT ![c].ret = "assigned"]
    /\ LET a == cons[c].out[1] IN
         mats' = IF a.mat = <<>> THEN mats
                 ELSE [mats EXCEPT ![a.mat[1]][a.mat[2]][1] = Scribble]
    /\ UNCHANGED <<ext, args, obj, config, sensor, read_lock, files, workers,
                   sessions, ctl>>

-----------------------------------------------------------------------------
Controller ==
    \/ StartAlready
    \/ StartActivationError
    \/ StartOpen
    \/ StartMatImage
    \/ StartMatDepth
    \/ StartStarted
    \/ StartImage
    \/ StartDepth
    \/ StartThread
    \/ ExitClear
    \/ ExitNoThread
    \/ ExitJoin
    \/ ExitClose

Worker(s) ==
    \/ W_check(s)
    \/ W_grab_ok(s)
    \/ W_grab_fail(s)
    \/ W_retrieve_image(s)
    \/ W_retrieve_depth(s)
    \/ W_acquire(s)
    \/ W_update(s)
    \/ W_send_image(s)
    \/ W_send_depth(s)
    \/ W_sleep(s)

Consumer(c) ==
    \/ \E kind \in {"image", "depth"} : G_call(c, kind)
    \/ G_acquire(c)
    \/ G_load(c)
    \/ G_copy(c)
    \/ G_release(c)
    \/ G_mutate(c)

Next ==
    \/ Controller
    \/ \E s \in Sessions : Worker(s)
    \/ \E c \in Consumers : Consumer(c)

Spec == Init /\ [][Next]_vars

SpecCtor == CtorInit /\ [][Construct]_vars

SpecBuf == BufInit /\ [][BufNext]_vars

\* Scheduling: a thread that can take a step eventually takes one, and a thread
\* waiting for the lock gets it if the lock is free again and again.  A call
\* that has begun goes on; the controller and the consumers are free never to
\* make another call.
StartRest ==
    StartMatImage \/ StartMatDepth \/ StartStarted \/ StartImage \/ StartDepth \/ StartThread
ExitRest == ExitNoThread \/ ExitJoin \/ ExitClose
G_rest(c) == G_load(c) \/ G_copy(c) \/ G_release(c)
Fairness ==
    /\ WF_vars(StartRest)
    /\ WF_vars(ExitRest)
    /\ \A s \in Sessions : WF_vars(Worker(s)) /\ SF_vars(W_acquire(s))
    /\ \A c \in Consumers : WF_vars(G_rest(c)) /\ SF_vars(G_acquire(c))

LiveSpec == Spec /\ Fairness

-----------------------------------------------------------------------------
\* The frame a copy consists of cells of one retrieve_image.
whole(b) == \A i \in DOMAIN b : \A j \in DOMAIN b : b[i] = b[j]

\* C1: every frame returned by get_image_frame()/get_depth_map() is the frame of
\* one pull, never cells of two pulls, in every interleaving with the worker.
C1_NoTornSnapshot ==
    \A c \in Consumers : cons[c].pc = "release" => whole(cons[c].buf)

\* C2: when no get_image_frame()/get_depth_map() call is in progress, the read
\* lock is not held on behalf of a consumer (a failed call has released it).
C2_LockFreeBetweenCalls ==
    (\A c \in Consumers : cons[c].pc = "idle") => read_lock \notin Consumers

\* C3: exit() clears the flag, waits for the worker, then closes the device: the
\* device is never closed while the worker is alive, and under fair scheduling
\* an exit() that has begun returns.
C3_StopOrderAndReturn ==
    /\ [](\A s \in Sessions : is_alive(s) /\ thread = Some(s) => zed = "open")
    /\ [](ctl.pc = "close" => started = "False" /\ ~is_alive(thread[1]))
    /\ (ctl.pc = "join" ~> ctl.pc = "idle")

\* C4: once a start() has returned successfully (self.thread is set by its last
\* statement), no get_image_frame() call fails for want of a frame: the read of
\* self.image_frame finds a frame and the call goes on to copy it.
C4_SnapshotReadyAfterStart ==
    /\ [](thread # None => image_frame # None)
    /\ [][\A c \in Consumers :
            thread # None /\ cons[c].pc = "load" /\ cons[c].call = "image"
            => cons'[c].ret # "AttributeError"]_vars

\* A get_image_frame() is about to return the frame that start() stored, before
\* the worker's first update.
C4_Witness ==
    \E c \in Consumers :
        /\ ctl = [pc |-> "idle", ret |-> "start: ok"]
        /\ thread = Some(sessions)
        /\ cons[c].pc = "copy"
        /\ cons[c].call = "image"
        /\ cons[c].src = initial_image_frame(sessions)
        /\ nupdates[sessions] = 0

\* C5: at most one acquisition worker is alive at any time, over any sequence of
\* start() and exit() calls; start() on a started sensor changes nothing, so
\* no worker makes more than one write per named buffer and pull.
C5_SingleWorker ==
    /\ Cardinality({s \in Sessions : is_alive(s)}) <= 1
    /\ \A s \in Sessions : is_alive(s) => thread = Some(s)
    /\ \A s \in Sessions : nwrites[s] <= 2 * npulls[s]

\* After a restart, a start() on the running sensor has returned and the one
\* worker is still capturing.
C5_Witness ==
    /\ sessions >= 2
    /\ ctl.ret = "start: already started"
    /\ is_alive(sessions)
    /\ npulls[sessions] >= 1

\* C6: exit() on a sensor whose start() never succeeded returns without raising.
C6_StopSafeBeforeStart ==
    sessions = 0 => ctl.ret # "AttributeError"

\* C7: an exit() after an exit() (the device is closed already) does not raise,
\* does not wait for anything, and leaves the sensor as the first exit() left it.
C7_StopIdempotent ==
    /\ [](zed = "closed" /\ ctl.pc = "join" => thread # None /\ ~is_alive(thread[1]))
    /\ [][zed = "closed" /\ ctl.pc # ctl'.pc /\ "mat_image" \notin {ctl.pc, ctl'.pc}
            => /\ sensor' = sensor
               /\ ctl'.ret # "AttributeError"
               /\ \A s \in Sessions : ~is_alive(s)']_vars

\* The second exit() has passed its join and is about to close the closed device.
C7_Witness ==
    zed = "closed" /\ ctl.pc = "close" /\ started = "False"

\* Frame f is the frame of pull n of worker s: every cell of it was written by
\* that pull (n = 0: by start(), which stores all channels; the loop stores 3).
is_frame_of_pull(f, s, n) ==
    /\ DOMAIN f.cells = 1..FrameCells
    /\ \A i \in DOMAIN f.cells : f.cells[i].sess = s /\ f.cells[i].id = n
    /\ f.ch = IF n = 0 THEN num_channels ELSE 3

\* C8: a failed pull ends the worker at once; it has then made one update less
\* than pulls, the cell holds the frame of the last successful pull (start()'s
\* frame if there was none) until a later start() opens the device again,
\* nothing is written to the named buffers any more, and an exit() waiting
\* for this worker can go on.
C8_FailedPullEndsWorker ==
    /\ [](\A s \in Sessions :
            wpc[s] = "failed" /\ thread = Some(s)
            => /\ nupdates[s] = npulls[s] - 1
               /\ sessions = s =>
                     /\ image_frame # None
                     /\ image_frame[1].mat = <<s, "img">>
                     /\ is_frame_of_pull(bytes_of(image_frame[1]), s, npulls[s] - 1)
               /\ (ctl.pc = "join" => ENABLED ExitJoin))
    /\ [][\A s \in Sessions :
            /\ (wpc[s] = "grab" /\ npulls'[s] = npulls[s] + 1
                /\ wpc'[s] # "retrieve_image") => wpc'[s] = "failed"
            /\ (wpc[s] = "failed" /\ thread = Some(s))
               => /\ files' = files
                  /\ ~is_alive(s)'
                  /\ thread' = Some(s) => nupdates'[s] = nupdates[s]]_vars

\* The third pull of a worker failed after two updates (depth enabled).
C8_Witness ==
    \E s \in Sessions :
        wpc[s] = "failed" /\ npulls[s] = 3 /\ nupdates[s] = 2 /\ thread = Some(s)

\* C9: once the worker has exited on a failed pull, the state the lifecycle
\* inspects (self.started, the test of start()) is not that of a running sensor.
C9_FailureRecorded ==
    \A s \in Sessions : wpc[s] = "failed" /\ thread = Some(s) => started # "True"

\* The compatibility table and the views, as the claim lists them.
C10_Table ==
    {<<"720", 15>>, <<"720", 30>>, <<"720", 60>>, <<"1080", 15>>, <<"1080", 30>>,
     <<"2K", 15>>}
C10_Views == {s_left, s_right, s_LEFT, s_Right}

\* C10: construction succeeds exactly for a supported view (left or right, in
\* any letter case) with a (resolution, fps) pair of the table; otherwise it
\* fails and no sensor is produced.
C10_ConstructionValidates ==
    obj # "pending" =>
        /\ obj = "sensor" <=>
             /\ args.camera_view \in C10_Views
             /\ <<args.camera_resolution, args.fps>> \in C10_Table
        /\ obj = "sensor" =>
             /\ camera_resolution = args.camera_resolution
             /\ fps = args.fps
             /\ include_depth = args.include_depth
             /\ camera_view \in {s_left, s_right}
        /\ obj # "sensor" => obj = "AssertionError" /\ NoObject

\* ('1080', 60) with a supported view was rejected.
C10_Witness ==
    /\ obj = "AssertionError"
    /\ args.camera_view = s_left
    /\ args.camera_resolution = "1080"
    /\ args.fps = 60

\* C12: an array read back from a named file with the shape of the array last
\* written to it, and not assigned to since, equals that array element by
\* element, whether the write created the file or found it existing.
C12_RoundTrip ==
    ext.out # None =>
        LET m == ext.out[1] IN
            (DOMAIN m.priv = {} /\ ext.sent[m.file] # None
             /\ ext.sent[m.file][1].shape = m.shape)
            => content(files, m) = ext.sent[m.file][1]

\* An array of the largest shape was written over an existing file and has
\* been read back.
C12_Witness ==
    /\ ext.out # None
    /\ ext.out[1].shape = <<2, 1, 2>>
    /\ DOMAIN ext.out[1].priv = {}
    /\ ext.over[ext.out[1].file]
    /\ ext.sent[ext.out[1].file] # None
    /\ content(files, ext.out[1]) = ext.sent[ext.out[1].file][1]
    /\ \E idx \in indices(<<2, 1, 2>>) : content(files, ext.out[1]).el[idx] = 1

\* C13: get_from_buffer and assignments to the array it returned leave every
\* named file as it is, and reading a name that has no file raises
\* FileNotFoundError, returns nothing and creates no file.
C13_ReadLeavesRegion ==
    [][/\ ((\E n \in BufNames, sh \in BufShapes : BufRead(n, sh))
           \/ (\E idx \in indices(<<2, 2, 2>>), v \in BufBytes : BufMutate(idx, v)))
          => files' = files
       /\ \A n \in BufNames :
            (files[n] = None /\ \E sh \in BufShapes : BufRead(n, sh))
            => (ext'.err = "FileNotFoundError" /\ ext'.out = None /\ files'[n] = None)
      ]_vars

\* The caller has assigned to the array it read, and the array now differs
\* from the file.
C13_Witness ==
    /\ ext.out # None
    /\ \E p \in DOMAIN ext.out[1].priv :
         ext.out[1].priv[p] # files[ext.out[1].file][1][p]

\* C11: a snapshot call that finds no frame raises and returns nothing, and it
\* is recoverable: under fair scheduling a get_image_frame()
\* or get_depth_map() made once its frame exists returns a frame.
C11_FailedSnapshotRecoverable ==
    /\ [](\A c \in Consumers : cons[c].ret = "AttributeError" => cons[c].out = None)
    /\ \A c \in Consumers :
         (/\ cons[c].pc = "acquire"
          /\ \/ cons[c].call = "image" /\ image_frame # None
             \/ cons[c].call = "depth" /\ depth_map # None)
         ~> (cons[c].pc = "idle" /\ cons[c].ret = "ok" /\ cons[c].out # None)

\* C14: an assignment by the caller to a frame that get_image_frame() or
\* get_depth_map() returned changes no Mat and neither stored frame, so the
\* cell and every later snapshot are as they would be without it.
C14_SnapshotIsCopy ==
    /\ [](\A c \in Consumers : cons[c].out # None => cons[c].out[1].mat = <<>>)
    /\ [][\A c \in Consumers :
            (cons[c].ret = "ok" /\ cons'[c].ret = "assigned")
            => (mats' = mats /\ image_frame' = image_frame /\ depth_map' = depth_map)]_vars

\* One caller has assigned to the frame it got while the worker is running, and
\* another is about to return a frame read after that.
C14_Witness ==
    \E c \in Consumers, d \in Consumers :
        /\ cons[c].ret = "assigned"
        /\ cons[d].pc = "release"
        /\ whole(cons[d].buf)
        /\ \E s \in Sessions : is_alive(s) /\ nupdates[s] >= 1

\* C15: the loop publishes only the enabled streams: with depth disabled
\* "zed_depth_map" is never written and the worker keeps cycling, it ends only
\* at the loop test when the flag is cleared or by a failed pull, never by
\* another error.
C15_PublishesEnabledStreams ==
    /\ ~include_depth => files["zed_depth_map"] = None
    /\ \A s \in Sessions : wpc[s] # "crashed"

\* The eye a value of self.camera_view stands for: the string of the
\* constructor or the sl.VIEW member start() has put in its place.
C16_Eye(v) == IF v \in {s_left, VIEW_LEFT} THEN "left" ELSE "right"

\* C16: the configuration is fixed at construction: after any sequence of
\* start(), failed start() and exit() the configured view is the eye requested
\* at construction, and resolution, fps and the depth flag are the arguments of
\* the constructor.
C16_ConfigurationFixed ==
    /\ C16_Eye(camera_view) = C16_Eye(lower(args.camera_view))
    /\ camera_resolution = args.camera_resolution
    /\ fps = args.fps
    /\ include_depth = args.include_depth

\* C17: every image frame stored in the cell is a frame of the configured view
\* with exactly 3 channels, the one stored by start() as well as those stored
\* by the loop.
C17_StoredFrameOfViewThreeChannels ==
    image_frame # None =>
        /\ image_frame[1].ch = 3
        /\ \A i \in 1..FrameCells :
             LET c == bytes_of(image_frame[1]).cells[i] IN
               c.view # <<>> => C16_Eye(c.view) = C16_Eye(lower(args.camera_view))

\* C20: after exit() has returned the cell holds no image frame and no depth
\* map, until the next start().
C20_CellEmptyAfterStop ==
    (ctl.pc = "idle" /\ ctl.ret = "exit: ok") => (image_frame = None /\ depth_map = None)

\* A frame tag is not newer than another: sessions first, pulls within a session.
C18_NotNewer(a, b) == a.sess < b.sess \/ (a.sess = b.sess /\ a.id <= b.id)

\* No element of the named buffer is of a newer frame than what the stored view
\* shows.
C18_BufferNotAhead(name, stored) ==
    files[name] # None =>
        /\ stored # None
        /\ \A p \in DOMAIN files[name][1] :
             \A i \in 1..FrameCells :
                C18_NotNewer(files[name][1][p].cell, bytes_of(stored[1]).cells[i])

\* C18: publish order within a cycle: the worker writes the buffers and sleeps
\* without the read lock, it writes "zed_image" only after the cell update of
\* that pull and "zed_depth_map" only after "zed_image", and a named buffer
\* never holds a frame newer than the one the cell holds.
C18_PublishOrder ==
    /\ \A s \in Sessions :
         /\ wpc[s] \in {"send_image", "send_depth", "sleep"} => read_lock # "worker"
         /\ wpc[s] = "send_image" =>
               nupdates[s] = npulls[s] /\ nwrites[s] = 2 * (nupdates[s] - 1)
         /\ wpc[s] = "send_depth" =>
               nupdates[s] = npulls[s] /\ nwrites[s] = 2 * (nupdates[s] - 1) + 1
    /\ C18_BufferNotAhead("zed_image", image_frame)
    /\ C18_BufferNotAhead("zed_depth_map", depth_map)

\* The worker has updated the cell with its second pull and written it to
\* "zed_image", "zed_depth_map" still holds the pull before, and a caller
\* holds the read lock meanwhile.
C18_Witness ==
    \E s \in Sessions :
        /\ include_depth
        /\ wpc[s] = "send_depth"
        /\ npulls[s] = 2
        /\ files["zed_image"] # None /\ files["zed_image"][1][1].cell.id = 2
        /\ files["zed_depth_map"] # None /\ files["zed_depth_map"][1][1].cell.id = 1
        /\ read_lock \in Consumers

\* C19: cooperative stop: the worker reads the flag at the top of an iteration
\* and starts no pull once it has read it cleared, and under fair scheduling a
\* worker that is alive when exit() has cleared the flag ends.
C19_CooperativeStop ==
    /\ [][\A s \in Sessions :
            (wpc[s] = "check" /\ started # "True") => wpc'[s] \in {"check", "done", "none"}]_vars
    /\ \A s \in Sessions : (started = "False" /\ is_alive(s)) ~> ~is_alive(s)

====
